---- MODULE Spec2Model ----
(***************************************************************************)
(* State-machine model of lib/RedshiftBulkInsert.js: one RedshiftBulkInsert *)
(* instance, its idle timers, the local log files it rotates, and the      *)
(* asynchronous read -> putObject -> (unlink, query) chain started by      *)
(* every rotation.  Each action is one synchronous run of a public method  *)
(* or of an I/O completion callback on the single-threaded event loop.     *)
(***************************************************************************)
EXTENDS Integers, Sequences, FiniteSets, TLC

\* ---------------------------------------------------------------- bounds
MaxOps == 2          \* rotations (Flush Operations) started in one run
MaxOrphans == 1      \* pending timeouts this.ref no longer names
MaxThreshold == 2    \* options.threshold ranges over 1..MaxThreshold
MaxRetries == 2      \* options.maxRetries ranges over 0..MaxRetries
MaxDelay == 3        \* options.maxDelay ranges over 1..MaxDelay
MaxTimeSlot == 2     \* options.timeSlot ranges over 1..MaxTimeSlot
MaxStrLen == 2       \* characters of a string value of a row
MaxRowLen == 2       \* values of a row
MaxFields == 2       \* options.fields holds 1..MaxFields names

\* ------------------------------------------------------ program constants
SUFFIX == ".log"
tableName == "events"
pid == 7

Null == "null"               \* the JS null / undefined error argument
Undefined == "undefined"     \* a result argument that carries nothing
EmptyString == ""            \* the literal third argument of emit('flush', ...)
NoKey == "none"              \* no request issued yet

VARIABLES
    threshold,              \* this._threshold
    numberOfEventsInFile,   \* this._numberOfEventsInFile
    activeFlushOps,         \* this.activeFlushOps
    fileName,               \* this._fileName
    refPending,             \* whether the timeout this.ref names is pending
    orphans,                \* pending timeouts that this.ref no longer names
    now,                    \* the value Date.now() returns
    files,                  \* names of the files present in pathToLogs
    s3,                     \* keys of the objects present in the bucket
    ops,                    \* the Flush Operations started, in rotation order
    options,                \* the retry policy's options, merged with the defaults
    flushListeners,         \* listeners registered on the loader's 'flush' signal
    flushOps,               \* what the retry policy holds per Flush Operation
    row,                    \* the row given to _rowToLine
    line,                   \* the line _rowToLine returned
    phase,                  \* "idle", "row" (not encoded yet) or "line"
    copyOptions,            \* the options _getCopyQuery reads
    copyFileName,           \* the fileName argument of _getCopyQuery
    copyQuery               \* the text _getCopyQuery returned, "" before

\* the variables of the loader and the ones the loader never touches
lvars == <<threshold, numberOfEventsInFile, activeFlushOps, fileName,
           refPending, orphans, now, files, s3, ops>>
pvars == <<options, flushListeners, flushOps>>
evars == <<row, line, phase>>
qvars == <<copyOptions, copyFileName, copyQuery>>
notLoader == <<pvars, evars, qvars>>
notPolicy == <<lvars, evars, qvars>>
notEncoder == <<lvars, pvars, qvars>>
notCopyQuery == <<lvars, pvars, evars>>

vars == <<lvars, pvars, evars, qvars>>

\* ------------------------------------------------------------- helpers

\* _getLogFileName: tableName + '_' + Date.now() + '_' + pid + suffix
GetLogFileName(t) ==
    tableName \o "_" \o ToString(t) \o "_" \o ToString(pid) \o SUFFIX

\* a rotation test that also rotates an empty buffer
ShouldRotateEmpty(n) ==
    n >= 0

\* flush(): if (this._numberOfEventsInFile > 0)
ShouldRotate(n) ==
    n > 0

\* a threshold test that lets the count reach the threshold
CheckThresholdStrict(n) ==
    n > threshold

\* _checkThreshold(): if (this._numberOfEventsInFile >= this._threshold)
CheckThreshold(n) ==
    n >= threshold

\* the number of idle timeouts that are pending
PendingTimers(rp, orph) ==
    orph + (IF rp THEN 1 ELSE 0)

\* the closure flush() binds for fs.readFile: _sendToS3(oldFileName, Date.now())
NewOp(oldFileName, start) ==
    [file |-> oldFileName, start |-> start,
     read |-> "pending", put |-> "none", unlink |-> "none", query |-> "none",
     putKey |-> NoKey, queryKey |-> NoKey, emitted |-> <<>>]

\* an upload key read from this._fileName when the read completes
S3KeyLive(op) ==
    fileName

\* Key: fileName in the putObject params of _sendToS3
S3Key(op) ==
    op.file

\* the object key _getCopyQuery(fileName) puts after 's3://bucket/'
CopyKey(op) ==
    op.file

\* path.join(this._pathToLogs, fileName) of _removeLogFile
UnlinkTarget(op) ==
    op.file

\* emit('flush', err, result, '', start, this)
FlushEvent(start, err, result) ==
    [err |-> err, result |-> result, file |-> EmptyString, start |-> start,
     loader |-> "this"]

\* ------------------------------------------------------------- actions

\* a startIdleFlushMonitor that arms no timeout
StartIdleFlushMonitorOff(rp, orph) ==
    /\ orphans' = orph
    /\ refPending' = rp

\* startIdleFlushMonitor(): this.ref = setTimeout(flush, idleFlushPeriod).
\* Entered with rp, orph; a timeout this.ref named stays pending, unnamed.
StartIdleFlushMonitor(rp, orph) ==
    /\ orphans' = PendingTimers(rp, orph)
    /\ refPending' = TRUE

\* _decrimentActiveFlushOpsAndEmitFlushEvent(start, err, result), run by a
\* callback of operation i; staged is ops with that callback's stage recorded.
\* The event is logged under the operation whose callback emitted it.
DecrimentActiveFlushOpsAndEmitFlushEvent(staged, i, err, result) ==
    /\ activeFlushOps' = activeFlushOps - 1
    /\ ops' = [staged EXCEPT ![i].emitted =
                   Append(@, FlushEvent(staged[i].start, err, result))]

\* the body of flush(), entered with n buffered rows and the timer state
\* rp, orph.  this._file.setupFile(newPathToFile) opens the new target in
\* append mode, which creates the file when it is absent.
FlushBody(n, rp, orph) ==
    /\ IF ShouldRotate(n)
         THEN /\ Len(ops) < MaxOps
              /\ activeFlushOps' = activeFlushOps + 1
              /\ fileName' = GetLogFileName(now)
              /\ files' = files \cup {GetLogFileName(now)}
              /\ ops' = Append(ops, NewOp(fileName, now))
              /\ numberOfEventsInFile' = 0
         ELSE /\ numberOfEventsInFile' = n
              /\ UNCHANGED <<activeFlushOps, fileName, files, ops>>
    /\ StartIdleFlushMonitor(rp, orph)
    /\ UNCHANGED <<threshold, now, s3>>

\* insert(row): write the line, count it, _checkThreshold(), which runs
\* clearTimeout(this.ref) and flush() once the threshold is reached
Insert ==
    /\ IF CheckThreshold(numberOfEventsInFile + 1)
         THEN FlushBody(numberOfEventsInFile + 1, FALSE, orphans)
         ELSE /\ numberOfEventsInFile' = numberOfEventsInFile + 1
              /\ UNCHANGED <<threshold, activeFlushOps, fileName, refPending,
                             orphans, now, files, s3, ops>>

\* flush() called by a caller of the loader
Flush ==
    /\ refPending => orphans < MaxOrphans
    /\ FlushBody(numberOfEventsInFile, refPending, orphans)

\* the timeout this.ref names elapses and runs the bound flush
RefTimerFire ==
    /\ refPending
    /\ FlushBody(numberOfEventsInFile, FALSE, orphans)

\* a timeout this.ref no longer names elapses and runs the bound flush
OrphanTimerFire ==
    /\ orphans > 0
    /\ FlushBody(numberOfEventsInFile, refPending, orphans - 1)

\* close(): clearTimeout(this.ref); this._file.end().  The writer's stream
\* is the Buffer Writer's own state and is not part of the loader's.
Close ==
    /\ refPending' = FALSE
    /\ UNCHANGED <<threshold, numberOfEventsInFile, activeFlushOps, fileName,
                   orphans, now, files, s3, ops>>

\* the clock advances past a value the loader has read; further ticks
\* between two reads of Date.now() are not observable and are folded into one
Tick ==
    /\ GetLogFileName(now) = fileName
    /\ now' = now + 1
    /\ UNCHANGED <<threshold, numberOfEventsInFile, activeFlushOps, fileName,
                   refPending, orphans, files, s3, ops>>

\* fs.readFile completes and runs _sendToS3(fileName, start, err, body)
ReadDone(i, ok) ==
    /\ i \in 1..Len(ops)
    /\ ops[i].read = "pending"
    /\ ok => ops[i].file \in files
    /\ IF ok
         THEN /\ ops' = [ops EXCEPT ![i].read = "ok", ![i].put = "pending",
                                    ![i].putKey = S3Key(ops[i])]
              /\ UNCHANGED activeFlushOps
         ELSE DecrimentActiveFlushOpsAndEmitFlushEvent(
                  [ops EXCEPT ![i].read = "err"], i, "read error", Undefined)
    /\ UNCHANGED <<threshold, numberOfEventsInFile, fileName, refPending,
                   orphans, now, files, s3>>

\* s3.putObject completes and runs _onSentToS3(fileName, start, err, data)
PutDone(i, ok) ==
    /\ i \in 1..Len(ops)
    /\ ops[i].put = "pending"
    /\ IF ok
         THEN /\ ops' = [ops EXCEPT ![i].put = "ok", ![i].unlink = "pending",
                                    ![i].query = "pending",
                                    ![i].queryKey = CopyKey(ops[i])]
              /\ s3' = s3 \cup {ops[i].putKey}
              /\ UNCHANGED activeFlushOps
         ELSE /\ DecrimentActiveFlushOpsAndEmitFlushEvent(
                     [ops EXCEPT ![i].put = "err"], i, "upload error", Undefined)
              /\ s3' = s3
    /\ UNCHANGED <<threshold, numberOfEventsInFile, fileName, refPending,
                   orphans, now, files>>

\* fs.unlink completes and runs the bound
\* _decrimentActiveFlushOpsAndEmitFlushEvent(start, err)
UnlinkDone(i, ok) ==
    /\ i \in 1..Len(ops)
    /\ ops[i].unlink = "pending"
    /\ ok => UnlinkTarget(ops[i]) \in files
    /\ files' = IF ok THEN files \ {UnlinkTarget(ops[i])} ELSE files
    /\ DecrimentActiveFlushOpsAndEmitFlushEvent(
           [ops EXCEPT ![i].unlink = IF ok THEN "ok" ELSE "err"], i,
           IF ok THEN Null ELSE "unlink error", Undefined)
    /\ UNCHANGED <<threshold, numberOfEventsInFile, fileName, refPending,
                   orphans, now, s3>>

\* a load callback that also resets the row count of the live buffer
QueryDoneResetsCount(i, ok) ==
    /\ i \in 1..Len(ops)
    /\ ops[i].query = "pending"
    /\ DecrimentActiveFlushOpsAndEmitFlushEvent(
           [ops EXCEPT ![i].query = IF ok THEN "ok" ELSE "err"], i,
           IF ok THEN Null ELSE "load error",
           IF ok THEN "copy result" ELSE Undefined)
    /\ numberOfEventsInFile' = 0
    /\ UNCHANGED <<threshold, fileName, refPending, orphans, now, files, s3>>

\* datastore.query completes and runs _onSentCopyToRedshift(start, err, result)
QueryDone(i, ok) ==
    /\ i \in 1..Len(ops)
    /\ ops[i].query = "pending"
    /\ DecrimentActiveFlushOpsAndEmitFlushEvent(
           [ops EXCEPT ![i].query = IF ok THEN "ok" ELSE "err"], i,
           IF ok THEN Null ELSE "load error",
           IF ok THEN "copy result" ELSE Undefined)
    /\ UNCHANGED <<threshold, numberOfEventsInFile, fileName, refPending,
                   orphans, now, files, s3>>

\* ------------------------------------------------------- the retry policy
\* BulkInsertRetryPolicy.ephemeralRetryPolicy(loader, options), driven the
\* way its test drives it: the loader is the mock of createRSBLMock, a Flush
\* Operation is the mock of createFlushOpMock.  A failing operation and the
\* operations its retries start are one entry of flushOps.

\* the Flush Operations the mock loader hands out
FlushOps ==
    {"flushOp1", "flushOp2"}

Min(a, b) ==
    IF a <= b THEN a ELSE b

\* the default retryCalculation: a binary exponential backoff on timeSlot
RetryCalculation(attempt, slot) ==
    slot * (2 ^ attempt)

\* a delay that is not clamped
DelayUnclamped(attempt) ==
    RetryCalculation(attempt, options.timeSlot)

\* delay = min(maxDelay, retryCalculation(attempt, timeSlot))
Delay(attempt) ==
    Min(options.maxDelay, RetryCalculation(attempt, options.timeSlot))

\* a ceiling test that allows one retry more
ShouldRetryInclusive(retries) ==
    retries <= options.maxRetries

\* the per-operation attempt counter is below maxRetries
ShouldRetry(retries) ==
    retries < options.maxRetries

\* a registration that stays after the signal was raised (emitter.on)
OnceAsOn(n) ==
    n

\* flushOp.once('error', ...): the registration is removed when it is called
Once(n) ==
    0

\* a Flush Operation the policy has not been told about
NewFlushOp ==
    [state |-> "new", listeners |-> 0, retries |-> 0, jobs |-> 0,
     delays |-> <<>>, nextFlush |-> <<>>]

\* the listener on the operation's error signal: schedule loader.flush()
\* after the delay, unless the attempt counter reached maxRetries
OnError(op) ==
    IF ShouldRetry(op.retries)
      THEN [op EXCEPT !.retries = @ + 1,
                      !.jobs = @ + 1,
                      !.delays = Append(@, [attempt |-> op.retries,
                                            delay |-> Delay(op.retries)])]
      ELSE op

\* the operation's emitter raises 'error': its listeners are called
RaiseError(op, state) ==
    IF op.listeners > 0
      THEN OnError([op EXCEPT !.state = state, !.listeners = Once(@)])
      ELSE [op EXCEPT !.state = state]

\* no retry policy is attached to the loader
NoRetryPolicy ==
    /\ options = [maxRetries |-> 0, timeSlot |-> 1, maxDelay |-> 1]
    /\ flushListeners = 0
    /\ flushOps = [o \in FlushOps |-> NewFlushOp]

\* ephemeralRetryPolicy(loader, options): loader.on('flush', ...)
EphemeralRetryPolicy ==
    /\ flushListeners = 0
    /\ flushListeners' = flushListeners + 1
    /\ UNCHANGED <<options, flushOps>>

\* the loader hands a Flush Operation to its 'flush' listeners, which
\* register on the operation's error signal; an operation is handed when it
\* starts, the first time or after a retry called loader.flush()
LoaderEmitFlush(o) ==
    /\ flushListeners > 0
    /\ flushOps[o].state \in {"new", "retried"}
    /\ flushOps' = [flushOps EXCEPT ![o].state = "started",
                                    ![o].listeners = @ + flushListeners]
    /\ UNCHANGED <<options, flushListeners>>

\* the operation fails: it raises its error signal
FlushOpError(o) ==
    /\ flushOps[o].state = "started"
    /\ flushOps' = [flushOps EXCEPT ![o] = RaiseError(@, "failed")]
    /\ UNCHANGED <<options, flushListeners>>

\* the failed operation raises its error signal a second time
FlushOpErrorAgain(o) ==
    /\ flushOps[o].state = "failed"
    /\ flushOps' = [flushOps EXCEPT ![o] = RaiseError(@, "failedAgain")]
    /\ UNCHANGED <<options, flushListeners>>

\* a scheduled job runs: it calls the loader's flush
RetryTimerFire(o) ==
    /\ flushOps[o].jobs > 0
    /\ flushOps' = [flushOps EXCEPT ![o].jobs = @ - 1, ![o].state = "retried"]
    /\ UNCHANGED <<options, flushListeners>>

\* emitter.emit('next flush', flushOp, job) for a job that was scheduled
EmitNextFlush(o) ==
    /\ Len(flushOps[o].nextFlush) < Len(flushOps[o].delays)
    /\ flushOps' = [flushOps EXCEPT ![o].nextFlush =
                       Append(@, [flushOp |-> o, job |-> Len(@) + 1])]
    /\ UNCHANGED <<options, flushListeners>>

\* ------------------------------------------------------- the line encoder
\* A string is the sequence of its characters; null is a value of its own.

DELIMITER == "|"
ESCAPE == "\\"
NULL == <<ESCAPE, "N">>

NullValue == <<"null">>
Alphabet == {ESCAPE, DELIMITER, "N"}

RECURSIVE SeqsUpTo(_, _)
SeqsUpTo(S, n) ==
    IF n = 0 THEN {<<>>}
    ELSE LET shorter == SeqsUpTo(S, n - 1)
         IN  shorter \cup {Append(s, x) : s \in shorter, x \in S}

\* the values a row holds: null, or a string of up to MaxStrLen characters
Values == {NullValue} \cup SeqsUpTo(Alphabet, MaxStrLen)

\* the rows insert() is given: one value per field, at least one field
Rows == SeqsUpTo(Values, MaxRowLen) \ {<<>>}

\* String.prototype.replace(/c/g, r): every c becomes the characters r
RECURSIVE Replace(_, _, _)
Replace(s, c, r) ==
    IF s = <<>> THEN <<>>
    ELSE (IF Head(s) = c THEN r ELSE <<Head(s)>>) \o Replace(Tail(s), c, r)

\* an escaping that handles the delimiter before the backslash
EscapeValueDelimiterFirst(value) ==
    IF value = NullValue
      THEN NULL
      ELSE Replace(Replace(value, DELIMITER, <<ESCAPE, DELIMITER>>),
                   ESCAPE, <<ESCAPE, ESCAPE>>)

\* _escapeValue: value.replace(/\\/g, '\\\\').replace(/\|/g, '\\|')
EscapeValue(value) ==
    IF value = NullValue
      THEN NULL
      ELSE Replace(Replace(value, ESCAPE, <<ESCAPE, ESCAPE>>),
                   DELIMITER, <<ESCAPE, DELIMITER>>)

\* Array.prototype.join of sequences of characters
RECURSIVE Join(_, _)
Join(parts, sep) ==
    IF Len(parts) = 0 THEN <<>>
    ELSE IF Len(parts) = 1 THEN parts[1]
    ELSE parts[1] \o sep \o Join(Tail(parts), sep)

\* _rowToLine: the escaped values joined by the delimiter
RowToLine(r) ==
    Join([k \in 1..Len(r) |-> EscapeValue(r[k])], <<DELIMITER>>)

\* nothing was given to the encoder
NoRow ==
    /\ row = <<>>
    /\ line = <<>>
    /\ phase = "idle"

\* var line = this._rowToLine(row)
Encode ==
    /\ phase = "row"
    /\ line' = RowToLine(row)
    /\ phase' = "line"
    /\ UNCHANGED row

\* --------------------------------------------------------- the COPY query
\* Strings are TLA+ strings here; fields is a sequence of strings.

TableNames == {"events", "t"}
FieldNames == {"id", "name", "ts"}
BucketNames == {"bucket", "b2"}
AccessKeyIds == {"AKIA", "id2"}
SecretAccessKeys == {"secret", "s2"}

\* this._fields.join(sep)
RECURSIVE JoinStrings(_, _)
JoinStrings(parts, sep) ==
    IF Len(parts) = 0 THEN ""
    ELSE IF Len(parts) = 1 THEN parts[1]
    ELSE parts[1] \o sep \o JoinStrings(Tail(parts), sep)

\* a query text with the field names joined by a comma alone
GetCopyQueryCommaOnly(o, key) ==
    "COPY " \o o.tableName \o " (" \o JoinStrings(o.fields, ",") \o ")"
      \o " FROM " \o "'" \o "s3://" \o o.awsBucketName \o "/" \o key \o "'"
      \o " CREDENTIALS " \o "'aws_access_key_id=" \o o.awsAccessKeyId \o ";"
      \o "aws_secret_access_key=" \o o.awsSecretAccessKey \o "'" \o " ESCAPE"

\* _getCopyQuery(fileName)
GetCopyQuery(o, key) ==
    "COPY " \o o.tableName \o " (" \o JoinStrings(o.fields, ", ") \o ")"
      \o " FROM " \o "'" \o "s3://" \o o.awsBucketName \o "/" \o key \o "'"
      \o " CREDENTIALS " \o "'aws_access_key_id=" \o o.awsAccessKeyId \o ";"
      \o "aws_secret_access_key=" \o o.awsSecretAccessKey \o "'" \o " ESCAPE"

\* no query was built
NoCopyQuery ==
    /\ copyOptions = [tableName |-> tableName, fields |-> <<>>,
                      awsBucketName |-> "", awsAccessKeyId |-> "",
                      awsSecretAccessKey |-> ""]
    /\ copyFileName = ""
    /\ copyQuery = ""

\* _onSentToS3: var copyQuery = this._getCopyQuery(fileName)
BuildCopyQuery ==
    /\ copyFileName # ""
    /\ copyQuery = ""
    /\ copyQuery' = GetCopyQuery(copyOptions, copyFileName)
    /\ UNCHANGED <<copyOptions, copyFileName>>

\* new RedshiftBulkInsert(options)
NewRedshiftBulkInsert ==
    /\ threshold \in 1..MaxThreshold
    /\ numberOfEventsInFile = 0
    /\ activeFlushOps = 0
    /\ now = 0
    /\ fileName = GetLogFileName(0)
    /\ files = {GetLogFileName(0)}
    /\ refPending = TRUE
    /\ orphans = 0
    /\ s3 = {}
    /\ ops = <<>>

\* one loader, nothing attached to it
Init ==
    /\ NewRedshiftBulkInsert
    /\ NoRetryPolicy
    /\ NoRow
    /\ NoCopyQuery

Next ==
    \/ Insert /\ UNCHANGED notLoader
    \/ Flush /\ UNCHANGED notLoader
    \/ RefTimerFire /\ UNCHANGED notLoader
    \/ OrphanTimerFire /\ UNCHANGED notLoader
    \/ Close /\ UNCHANGED notLoader
    \/ Tick /\ UNCHANGED notLoader
    \/ \E i \in 1..MaxOps, ok \in BOOLEAN : ReadDone(i, ok) /\ UNCHANGED notLoader
    \/ \E i \in 1..MaxOps, ok \in BOOLEAN : PutDone(i, ok) /\ UNCHANGED notLoader
    \/ \E i \in 1..MaxOps, ok \in BOOLEAN : UnlinkDone(i, ok) /\ UNCHANGED notLoader
    \/ \E i \in 1..MaxOps, ok \in BOOLEAN : QueryDone(i, ok) /\ UNCHANGED notLoader

Spec == Init /\ [][Next]_vars

\* the loader while close() is not called
NextOpen ==
    \/ Insert /\ UNCHANGED notLoader
    \/ Flush /\ UNCHANGED notLoader
    \/ RefTimerFire /\ UNCHANGED notLoader
    \/ OrphanTimerFire /\ UNCHANGED notLoader
    \/ Tick /\ UNCHANGED notLoader
    \/ \E i \in 1..MaxOps, ok \in BOOLEAN : ReadDone(i, ok) /\ UNCHANGED notLoader
    \/ \E i \in 1..MaxOps, ok \in BOOLEAN : PutDone(i, ok) /\ UNCHANGED notLoader
    \/ \E i \in 1..MaxOps, ok \in BOOLEAN : UnlinkDone(i, ok) /\ UNCHANGED notLoader
    \/ \E i \in 1..MaxOps, ok \in BOOLEAN : QueryDone(i, ok) /\ UNCHANGED notLoader

\* a pending timeout is run by the event loop after its delay
SpecOpen ==
    /\ Init
    /\ [][NextOpen]_vars
    /\ WF_vars(RefTimerFire /\ UNCHANGED notLoader)
    /\ WF_vars(OrphanTimerFire /\ UNCHANGED notLoader)

\* ephemeralRetryPolicy against the mock loader: the options are the user's
InitRetry ==
    /\ NewRedshiftBulkInsert
    /\ threshold = 1
    /\ options \in [maxRetries : 0..MaxRetries, timeSlot : 1..MaxTimeSlot,
                    maxDelay : 1..MaxDelay]
    /\ flushListeners = 0
    /\ flushOps = [o \in FlushOps |-> NewFlushOp]
    /\ NoRow
    /\ NoCopyQuery

NextRetry ==
    \/ EphemeralRetryPolicy /\ UNCHANGED notPolicy
    \/ \E o \in FlushOps : LoaderEmitFlush(o) /\ UNCHANGED notPolicy
    \/ \E o \in FlushOps : FlushOpError(o) /\ UNCHANGED notPolicy
    \/ \E o \in FlushOps : FlushOpErrorAgain(o) /\ UNCHANGED notPolicy
    \/ \E o \in FlushOps : RetryTimerFire(o) /\ UNCHANGED notPolicy
    \/ \E o \in FlushOps : EmitNextFlush(o) /\ UNCHANGED notPolicy

\* the policy is constructed, every operation is started and always fails,
\* a scheduled job runs after its delay, a notification is emitted
SpecRetry ==
    /\ InitRetry
    /\ [][NextRetry]_vars
    /\ WF_vars(EphemeralRetryPolicy /\ UNCHANGED notPolicy)
    /\ \A o \in FlushOps :
         /\ WF_vars(LoaderEmitFlush(o) /\ UNCHANGED notPolicy)
         /\ WF_vars(FlushOpError(o) /\ UNCHANGED notPolicy)
         /\ WF_vars(RetryTimerFire(o) /\ UNCHANGED notPolicy)
         /\ WF_vars(EmitNextFlush(o) /\ UNCHANGED notPolicy)

\* insert(row) is given a row of Rows
InitEncode ==
    /\ NewRedshiftBulkInsert
    /\ threshold = 1
    /\ NoRetryPolicy
    /\ NoCopyQuery
    /\ row \in Rows
    /\ line = <<>>
    /\ phase = "row"

NextEncode ==
    Encode /\ UNCHANGED notEncoder

SpecEncode == InitEncode /\ [][NextEncode]_vars

\* a Flush Operation uploaded its file: the options and the key are given
InitCopy ==
    /\ NewRedshiftBulkInsert
    /\ threshold = 1
    /\ NoRetryPolicy
    /\ NoRow
    /\ copyOptions \in [tableName : TableNames,
                        fields : SeqsUpTo(FieldNames, MaxFields) \ {<<>>},
                        awsBucketName : BucketNames,
                        awsAccessKeyId : AccessKeyIds,
                        awsSecretAccessKey : SecretAccessKeys]
    /\ copyFileName \in {GetLogFileName(t) : t \in 0..1}
    /\ copyQuery = ""

NextCopy ==
    BuildCopyQuery /\ UNCHANGED notCopyQuery

SpecCopy == InitCopy /\ [][NextCopy]_vars

TypeOK ==
    /\ threshold \in 1..MaxThreshold
    /\ numberOfEventsInFile \in Nat
    /\ activeFlushOps \in Int
    /\ now \in 0..(MaxOps + 1)
    /\ refPending \in BOOLEAN
    /\ orphans \in 0..(MaxOrphans + 1)
    /\ Len(ops) <= MaxOps

\* ------------------------------------------------------- observations

\* every completion callback of the operation has run
Terminated(op) ==
    /\ op.read # "pending"
    /\ op.put # "pending"
    /\ op.unlink # "pending"
    /\ op.query # "pending"

\* the step starts a Flush Operation, i.e. it rotates
Rotation ==
    Len(ops') = Len(ops) + 1

\* the step is a firing of an idle timeout
TimerFire ==
    RefTimerFire \/ OrphanTimerFire

\* the file identifier the k-th rotation generated
RotationId(k) ==
    IF k < Len(ops) THEN ops[k + 1].file ELSE fileName

\* --------------------------------------------------------------- claims

\* C1: every Flush Operation emits exactly one terminal 'flush' event: never
\* two, and one once all of its completion callbacks have run.
C1_ExactlyOneFlushEvent ==
    \A i \in 1..Len(ops) :
        /\ Len(ops[i].emitted) <= 1
        /\ Terminated(ops[i]) => Len(ops[i].emitted) = 1

\* C2: activeFlushOps equals the number of Flush Operations started and not
\* yet terminated (no terminal event emitted yet); it is never negative.
C2_ActiveFlushOpsCountsInFlight ==
    /\ activeFlushOps >= 0
    /\ activeFlushOps =
           Cardinality({i \in 1..Len(ops) : Len(ops[i].emitted) = 0})

\* C3: at most one idle timer is pending at any time, whoever called flush().
C3_AtMostOneIdleTimer ==
    PendingTimers(refPending, orphans) <= 1

\* C4: the file identifiers generated by the rotations of one loader are
\* pairwise different, and no two Flush Operations reference the same file.
C4_FileIdentifiersUnique ==
    /\ \A j, k \in 1..Len(ops) : j # k => RotationId(j) # RotationId(k)
    /\ \A j, k \in 1..Len(ops) : j # k => ops[j].file # ops[k].file

\* C5 as stated: a rotation happens only when an insert makes the row count
\* reach the threshold or when an idle timer elapses with buffered rows.
C5_RotationOnlyByThresholdOrTimer ==
    [][Rotation =>
          \/ Insert /\ numberOfEventsInFile + 1 >= threshold
          \/ TimerFire /\ numberOfEventsInFile > 0]_vars

\* C5 amended: a rotation happens if and only if flush() runs with at least
\* one buffered row: from an insert that makes the count reach the threshold,
\* from an idle timer that elapses, or from a direct call of flush(); flush()
\* run with zero buffered rows (timer or direct call) starts no rotation,
\* leaves file identifier, row count, activeFlushOps, files and operations
\* unchanged, and leaves the timer this.ref names pending.
C5_RotationIffFlushWithRows ==
    [][/\ Rotation <=>
             \/ Insert /\ numberOfEventsInFile + 1 >= threshold
             \/ (TimerFire \/ Flush) /\ numberOfEventsInFile > 0
       /\ (TimerFire \/ Flush) /\ numberOfEventsInFile = 0 =>
             /\ UNCHANGED <<fileName, numberOfEventsInFile, activeFlushOps,
                            files, s3, ops>>
             /\ refPending']_vars

\* C5 witness: with threshold 2 a rotation has happened, flush() has been
\* called directly (a timeout this.ref no longer names is pending), the
\* buffer is empty and the timer this.ref names is armed.
C5_Witness ==
    /\ threshold = 2
    /\ Len(ops) = 1
    /\ numberOfEventsInFile = 0
    /\ refPending
    /\ orphans = 1

\* C6: the buffered row count goes up by exactly one per insert until a
\* rotation, which resets it to zero; only a rotation lowers the count or
\* changes the current file identifier; the count stays in 0..threshold-1.
C6_CountAndRotation ==
    /\ [](numberOfEventsInFile \in 0..(threshold - 1))
    /\ [][/\ Insert /\ ~Rotation =>
                numberOfEventsInFile' = numberOfEventsInFile + 1
          /\ Rotation => numberOfEventsInFile' = 0
          /\ ~Rotation =>
                /\ numberOfEventsInFile' \in
                       {numberOfEventsInFile, numberOfEventsInFile + 1}
                /\ fileName' = fileName]_vars

\* C6 witness: with threshold 2 a row is buffered after a rotation under a
\* new file identifier.
C6_Witness ==
    /\ threshold = 2
    /\ numberOfEventsInFile = 1
    /\ Len(ops) = 1
    /\ fileName # ops[1].file

\* C7: once a Flush Operation has terminated, its local file is absent if and
\* only if its upload succeeded (a failed read or upload leaves it present),
\* and a failed load leaves the object in the bucket.  Stated for the
\* operations whose delete, when issued, did not fail.
C7_LocalFileAbsentIffUploaded ==
    \A i \in 1..Len(ops) :
        Terminated(ops[i]) /\ ops[i].unlink # "err" =>
            /\ (ops[i].file \notin files) <=> (ops[i].put = "ok")
            /\ ops[i].query = "err" => ops[i].file \in s3

\* C8: within one Flush Operation a stage is issued only after the previous
\* one succeeded, in the order read, upload, (load, delete); a failed read
\* issues nothing, a failed upload issues neither load nor delete; the upload
\* key and the key of the load command are the file captured at rotation.
C8_StagesInOrderOnCapturedFile ==
    \A i \in 1..Len(ops) :
        /\ ops[i].put # "none" => ops[i].read = "ok"
        /\ ops[i].unlink # "none" \/ ops[i].query # "none" => ops[i].put = "ok"
        /\ ops[i].read = "err" =>
               ops[i].put = "none" /\ ops[i].unlink = "none" /\ ops[i].query = "none"
        /\ ops[i].put = "err" => ops[i].unlink = "none" /\ ops[i].query = "none"
        /\ ops[i].put # "none" => ops[i].putKey = ops[i].file
        /\ ops[i].query # "none" => ops[i].queryKey = ops[i].file
        /\ ops[i].put = "ok" => ops[i].file \in s3

\* C8 witness: the first operation was uploaded and its load issued after a
\* second rotation had moved the loader on to another file.
C8_Witness ==
    /\ Len(ops) = 2
    /\ ops[1].query = "pending"
    /\ ops[2].read = "pending"
    /\ ops[1].file # ops[2].file
    /\ fileName # ops[1].file
    /\ ops[1].putKey = ops[1].file

\* C9: every terminal event carries the file identifier of its operation.
C9_EventCarriesFileIdentifier ==
    \A i \in 1..Len(ops) :
        \A k \in 1..Len(ops[i].emitted) : ops[i].emitted[k].file = ops[i].file

\* C10: when the load command of an operation fails, the operation emits a
\* terminal event carrying the load error and none with a null error.
C10_LoadFailureIsTheOnlyOutcome ==
    \A i \in 1..Len(ops) :
        ops[i].query = "err" =>
            /\ \E k \in 1..Len(ops[i].emitted) : ops[i].emitted[k].err = "load error"
            /\ \A k \in 1..Len(ops[i].emitted) : ops[i].emitted[k].err # Null

\* C11: immediately after close() returns no idle timer of the loader is
\* pending.
C11_NoTimerPendingAfterClose ==
    [][Close => PendingTimers(refPending', orphans') = 0]_vars

\* C12: while the loader is not closed, whenever rows are buffered a rotation
\* eventually empties the buffer (timers fire fairly), also when inserts keep
\* arriving below the threshold; and while rows stay buffered the pending
\* idle timer is neither cancelled nor re-armed, so it elapses one idle
\* period at most after the first buffered row.  Stated for the runs that
\* have started fewer than MaxOps operations.
C12_BufferedRowsAreRotated ==
    /\ (numberOfEventsInFile > 0 /\ Len(ops) < MaxOps) ~> (numberOfEventsInFile = 0)
    /\ [][numberOfEventsInFile > 0 /\ ~Rotation =>
             refPending /\ UNCHANGED <<refPending, orphans>>]_vars

\* C12 witness: with threshold 2 a row is buffered below the threshold after
\* an earlier rotation, and the idle timer is pending.
C12_Witness ==
    /\ threshold = 2
    /\ Len(ops) = 1
    /\ numberOfEventsInFile = 1
    /\ refPending

Failed(op) ==
    "err" \in {op.read, op.put, op.unlink, op.query}

\* C16: when flush() is called directly (as a retry does) after a Flush
\* Operation failed, the call rotates: a new Flush Operation is started and
\* the new target file identifier is the file of no earlier operation.
C16_RetryFlushStartsFreshRotation ==
    [][(Flush /\ \E i \in 1..Len(ops) : Failed(ops[i])) =>
          /\ Rotation
          /\ \A i \in 1..Len(ops) : ops[i].file # fileName']_vars

\* some started Flush Operation has a completion callback outstanding
InFlight ==
    \E i \in 1..Len(ops) : ~Terminated(ops[i])

\* C17: a step of a completion callback (it changes a started operation and
\* starts none), in any interleaving and with several operations in flight,
\* leaves the buffered row count, the target file identifier and the idle
\* timer unchanged; while operations are in flight insert() and flush() can
\* run (as far as the bounds MaxOps and MaxOrphans let a rotation run).
C17_CallbacksLeaveLiveBufferAlone ==
    /\ [][(ops' # ops /\ Len(ops') = Len(ops)) =>
            UNCHANGED <<numberOfEventsInFile, fileName, refPending,
                        orphans>>]_vars
    /\ [](InFlight =>
            /\ (Len(ops) < MaxOps \/ ~CheckThreshold(numberOfEventsInFile + 1))
                 => ENABLED (Insert /\ UNCHANGED notLoader)
            /\ ((Len(ops) < MaxOps \/ ~ShouldRotate(numberOfEventsInFile))
                  /\ (refPending => orphans < MaxOrphans))
                 => ENABLED (Flush /\ UNCHANGED notLoader))

\* two operations are in flight, both past their first callback, and rows
\* can still be inserted
C17_Witness ==
    /\ Len(ops) = 2
    /\ threshold = 2
    /\ ops[1].put = "ok" /\ ops[1].query = "pending"
    /\ ops[2].read = "ok" /\ ops[2].put = "pending"
    /\ numberOfEventsInFile = 0
    /\ ENABLED (Insert /\ UNCHANGED notLoader)

\* C18: the live buffer file exists and is never the file an in-flight Flush
\* Operation reads or deletes, so no row accepted by insert() sits in a file
\* that an operation removes.
C18_LiveBufferFileNotReadOrDeleted ==
    /\ fileName \in files
    /\ \A i \in 1..Len(ops) : ~Terminated(ops[i]) => ops[i].file # fileName

\* ---- reading a line back, by the escape rules of the line format: the
\* line is cut at every delimiter that no backslash precedes, a backslash
\* keeps the character after it, a field that is exactly \N is null
RECURSIVE SplitLine(_, _)
SplitLine(l, field) ==
    IF l = <<>> THEN <<field>>
    ELSE IF Head(l) = ESCAPE /\ Len(l) >= 2
      THEN SplitLine(Tail(Tail(l)), field \o <<l[1], l[2]>>)
    ELSE IF Head(l) = DELIMITER
      THEN <<field>> \o SplitLine(Tail(l), <<>>)
    ELSE SplitLine(Tail(l), Append(field, Head(l)))

RECURSIVE Unescape(_)
Unescape(f) ==
    IF f = <<>> THEN <<>>
    ELSE IF Head(f) = ESCAPE /\ Len(f) >= 2
      THEN <<f[2]>> \o Unescape(Tail(Tail(f)))
    ELSE <<Head(f)>> \o Unescape(Tail(f))

DecodeField(f) ==
    IF f = NULL THEN NullValue ELSE Unescape(f)

DecodeLine(l) ==
    LET fields == SplitLine(l, <<>>)
    IN  [k \in 1..Len(fields) |-> DecodeField(fields[k])]


\* C19: the encoded line of a row of nulls and strings (with backslashes and
\* delimiters in them) reads back as the row: cut at the unescaped
\* delimiters and unescaped, it gives the original values; \N is the
\* encoding of no string, and two different values never encode alike.
C19_EncodingRoundTrips ==
    phase = "line" =>
      /\ DecodeLine(line) = row
      /\ Len(SplitLine(line, <<>>)) = Len(row)
      /\ \A k \in 1..Len(row) :
           /\ row[k] # NullValue => EscapeValue(row[k]) # NULL
           /\ \A v \in Values :
                v # row[k] => EscapeValue(v) # EscapeValue(row[k])

\* a row of a null and of a string holding a backslash and a delimiter
\* was encoded
C19_Witness ==
    /\ phase = "line"
    /\ row = <<NullValue, <<ESCAPE, DELIMITER>>>>
    /\ line = <<ESCAPE, "N", DELIMITER, ESCAPE, ESCAPE, ESCAPE, DELIMITER>>

\* ---- the command text as the interface names it, token by token; gap is
\* what stands between the table name and the opening parenthesis
RECURSIVE CommaSpaceJoined(_)
CommaSpaceJoined(names) ==
    IF Len(names) = 1 THEN names[1]
    ELSE CommaSpaceJoined(SubSeq(names, 1, Len(names) - 1))
           \o ", " \o names[Len(names)]

CopyCommand(o, key, gap) ==
    "COPY " \o o.tableName \o gap \o "(" \o CommaSpaceJoined(o.fields)
      \o ") FROM 's3://" \o o.awsBucketName \o "/" \o key
      \o "' CREDENTIALS 'aws_access_key_id=" \o o.awsAccessKeyId
      \o ";aws_secret_access_key=" \o o.awsSecretAccessKey \o "' ESCAPE"

\* C20 as stated: the command is COPY <table>(<fields>) FROM ... ESCAPE with
\* nothing between the table name and the opening parenthesis.
C20_CopyQueryNoGap ==
    copyQuery # "" => copyQuery = CopyCommand(copyOptions, copyFileName, "")

\* C20 amended: the command is COPY <table> (<fields>) FROM ... ESCAPE, one
\* space between the table name and the opening parenthesis, the fields
\* comma-space-joined in the configured order, nothing else.
C20_CopyQueryOneSpace ==
    copyQuery # "" => copyQuery = CopyCommand(copyOptions, copyFileName, " ")

\* the query for a table with two fields was built
C20_Witness ==
    /\ copyQuery # ""
    /\ copyOptions.tableName = "events"
    /\ copyOptions.fields = <<"id", "name">>
    /\ copyFileName = GetLogFileName(1)

====
